---- MODULE Spec2Model ----
(***************************************************************************)
(* Mason's-rule core of sfgjs: the graph model of src/datamodel.js and the *)
(* loop analysis of src/sfg.js (findAllLoops, findNonTouching,             *)
(* calculateDenominator, calculateNumerator and their helpers).            *)
(*                                                                         *)
(* Strings are sequences of character codes, so that id concatenation,     *)
(* the default sort of Array.prototype.sort and Array.prototype.toString   *)
(* are computed as the engine computes them.  Node objects live in a heap  *)
(* (a sequence of node records; a reference is an index), so that object   *)
(* identity and aliasing of outgoingEdges arrays are observable.  Symbolic *)
(* expressions are evaluated over the integers with pairwise distinct      *)
(* prime edge weights.                                                     *)
(***************************************************************************)
EXTENDS Integers, Sequences, FiniteSets, TLC

(* ------------------------------ bounds --------------------------------- *)

\* total number of edges the graph builder pushes
MaxEdges == 4

\* number of findAllLoops calls made in a row on one graph
MaxLoopCalls == 2

(* --------------------------- character codes --------------------------- *)

Comma == 44
Underscore == 95
DigitZero == 48

\* the ids "1", "2", "3" of the nodes of the graph, in array order
NodeIdList == << <<49>>, <<50>>, <<51>> >>

\* "9": an id that no node of the graph carries
DanglingId == <<57>>

DestIds == {NodeIdList[k] : k \in 1..Len(NodeIdList)} \cup {DanglingId}

\* pairwise distinct weights, one per (node, position) slot
WeightTable == <<2, 3, 5, 7, 11, 13, 17, 19, 23, 29, 31, 37, 41, 43, 47, 53, 59, 61>>

WeightOf(n, j) == WeightTable[(n - 1) * 6 + j]

(* ------------------------------ sequences ------------------------------ *)

Includes(s, x) == \E k \in 1..Len(s) : s[k] = x

Pop(s) == IF Len(s) = 0 THEN s ELSE SubSeq(s, 1, Len(s) - 1)

\* Array.prototype.splice(i, 1) with a 1-based index
Splice1(s, i) == SubSeq(s, 1, i - 1) \o SubSeq(s, i + 1, Len(s))

\* edges.findIndex(e => e.endNode === id) from position k on, 1-based, 0 when absent
RECURSIVE FindEdgeToFrom(_, _, _)
FindEdgeToFrom(edges, id, k) ==
  IF k > Len(edges) THEN 0
  ELSE IF edges[k].endNode = id THEN k
  ELSE FindEdgeToFrom(edges, id, k + 1)

FindEdgeTo(edges, id) == FindEdgeToFrom(edges, id, 1)

(* ------------------------- src/datamodel.js ---------------------------- *)

Edge(weight, startNode, endNode) ==
  [weight |-> weight, startNode |-> startNode, endNode |-> endNode,
   id |-> startNode \o endNode]

EdgeCopy(e) == Edge(e.weight, e.startNode, e.endNode)

Node(id, value) == [id |-> id, value |-> value, outgoingEdges |-> <<>>]

\* copies the edges one by one into the new node's own array
RECURSIVE CopyEdges(_, _)
CopyEdges(edges, k) ==
  IF k > Len(edges) THEN <<>>
  ELSE <<EdgeCopy(edges[k])>> \o CopyEdges(edges, k + 1)

\* Node.prototype.copy handing back the node itself instead of a new object
NodeCopyAlias(h, r) == [heap |-> h, ref |-> r]

\* Node.prototype.copy: allocates a new node; the result names its reference
NodeCopy(h, r) ==
  LET fresh == [Node(h[r].id, h[r].value) EXCEPT
                  !.outgoingEdges = CopyEdges(h[r].outgoingEdges, 1)]
  IN  [heap |-> Append(h, fresh), ref |-> Len(h) + 1]

\* nodes.find(x => x.id === id): a reference, 0 for undefined
RECURSIVE FindNodeFrom(_, _, _, _)
FindNodeFrom(h, ns, id, k) ==
  IF k > Len(ns) THEN 0
  ELSE IF h[ns[k]].id = id THEN ns[k]
  ELSE FindNodeFrom(h, ns, id, k + 1)

FindNode(h, ns, id) == FindNodeFrom(h, ns, id, 1)

(* ------------------- graph builder (computeSFG pushes) ----------------- *)

RECURSIVE Decimal(_)
Decimal(n) ==
  IF n < 10 THEN <<DigitZero + n>>
  ELSE Decimal(n \div 10) \o <<DigitZero + (n % 10)>>

RECURSIVE LastIndexWithId(_, _, _)
LastIndexWithId(edges, id, k) ==
  IF k = 0 THEN 0
  ELSE IF edges[k].id = id THEN k
  ELSE LastIndexWithId(edges, id, k - 1)

\* the push of computeSFG that disambiguates a repeated edge id
PushEdgeUnique(edges, weight, s, e) ==
  LET currEdgeID == s \o e
      m          == LastIndexWithId(edges, currEdgeID, Len(edges))
      pushed     == Append(edges, Edge(weight, s, e))
  IN  IF m = 0 THEN pushed
      ELSE [pushed EXCEPT ![m + 1].id = currEdgeID \o <<Underscore>> \o Decimal(m)]

\* the pushes of computeSFG that keep the constructor's id
PushEdgePlain(edges, weight, s, e) == Append(edges, Edge(weight, s, e))

(* ------------------------------- state --------------------------------- *)

VARIABLES
  heap,        \* the node objects of the graph, by reference
  nodes,       \* the nodes array handed to the core: references into heap
  phase,       \* "build", "loops", "again", "nontouching", "denom", "numer"
  visited,     \* findAllLoops' visited list as its last call left it
  stack,       \* findAllLoops' edge stack as its last call left it
  allLoops,    \* result of the last findAllLoops call
  firstLoops,  \* result of the call before it (<<>> when there was none)
  loopCalls,   \* number of findAllLoops calls made on the graph
  dfsTrace,    \* the program points the last findAllLoops call went through
  nonTouching, \* result of findNonTouching(allLoops)
  levels,      \* the values the level counter i took in findNonTouching
  denom,       \* result of calculateDenominator(allLoops, nonTouching)
  numReq,      \* <<start, end>> of the last calculateNumerator call
  numer        \* its outcome

vars == <<heap, nodes, phase, visited, stack, allLoops, firstLoops, loopCalls,
          dfsTrace, nonTouching, levels, denom, numReq, numer>>

NumEdges(h, ns) ==
  LET RECURSIVE Sum(_)
      Sum(k) == IF k > Len(ns) THEN 0 ELSE Len(h[ns[k]].outgoingEdges) + Sum(k + 1)
  IN  Sum(1)

(* ---------------------------- findAllLoops ----------------------------- *)
(* st = [visited, stack, cycles, trace]: the three arrays findAllLoops shares  *)
(* with every dfsFindLoops call, and the history of what they held at the     *)
(* program points of dfsFindLoops.                                            *)

\* what visited and stack held before and after a program point of the call for curr
Event(kind, currId, startId, before, after) ==
  [kind      |-> kind,
   curr      |-> currId,
   root      |-> startId,
   visitedIn |-> before.visited,
   stackIn   |-> before.stack,
   visited   |-> after.visited,
   stack     |-> after.stack]

Logged(st, ev) == [st EXCEPT !.trace = Append(@, ev)]

\* the cycle branch with the pushed edge left on the stack
dfsRecordCycleNoPop(st, edge) ==
  LET pushedM == [st EXCEPT !.stack = Append(@, edge)]
  IN  [pushedM EXCEPT !.cycles = Append(@, pushedM.stack)]

\* stack.push(edge); cycles.push([...stack]); stack.pop()
dfsRecordCycle(st, edge) ==
  LET pushed == [st EXCEPT !.stack = Append(@, edge)]
      copied == [pushed EXCEPT !.cycles = Append(@, pushed.stack)]
  IN  [copied EXCEPT !.stack = Pop(@)]

RECURSIVE dfsFindLoops(_, _, _, _, _)
RECURSIVE dfsEdgeLoop(_, _, _, _, _, _)

\* dfsEdgeLoop with the unresolved destination ending the loop (break for continue)
dfsEdgeLoopBreak(h, ns, curr, startId, i, st) ==
  LET edges == h[curr].outgoingEdges IN
  IF i > Len(edges) THEN st
  ELSE
    LET edge == edges[i]
        v    == FindNode(h, ns, edge.endNode)
        rec  == dfsRecordCycle(st, edge)
    IN  IF v = 0 THEN st
        ELSE IF h[v].id = startId
          THEN dfsEdgeLoop(h, ns, curr, startId, i + 1,
                           Logged(rec, Event("cycle", h[curr].id, startId, st, rec)))
        ELSE IF ~Includes(st.visited, h[v].id)
          THEN dfsEdgeLoop(h, ns, curr, startId, i + 1,
                           dfsFindLoops(h, ns, v, startId,
                                        [st EXCEPT !.stack = Append(@, edge)]))
        ELSE dfsEdgeLoop(h, ns, curr, startId, i + 1, st)

\* the for loop of dfsFindLoops from edge index i on
dfsEdgeLoop(h, ns, curr, startId, i, st) ==
  LET edges == h[curr].outgoingEdges IN
  IF i > Len(edges) THEN st
  ELSE
    LET edge     == edges[i]
        v        == FindNode(h, ns, edge.endNode)
        recorded == dfsRecordCycle(st, edge)
    IN  IF v = 0 THEN dfsEdgeLoop(h, ns, curr, startId, i + 1, st)
        ELSE IF h[v].id = startId
          THEN dfsEdgeLoop(h, ns, curr, startId, i + 1,
                           Logged(recorded,
                                  Event("cycle", h[curr].id, startId, st, recorded)))
        ELSE IF ~Includes(st.visited, h[v].id)
          THEN dfsEdgeLoop(h, ns, curr, startId, i + 1,
                           dfsFindLoops(h, ns, v, startId,
                                        [st EXCEPT !.stack = Append(@, edge)]))
        ELSE dfsEdgeLoop(h, ns, curr, startId, i + 1, st)

\* visited.push(curr.id), logged as "enter"
dfsEnter(h, curr, startId, st) ==
  LET marked == [st EXCEPT !.visited = Append(@, h[curr].id)]
  IN  Logged(marked, Event("enter", h[curr].id, startId, st, marked))

\* dfsReturn with the root unmarked on return like every other node
dfsReturnUnmarkRoot(h, curr, startId, st, looped) ==
  LET leftM == IF h[curr].id # startId
                 THEN [looped EXCEPT !.stack = Pop(@), !.visited = Pop(@)]
                 ELSE [looped EXCEPT !.visited = Pop(@)]
  IN  Logged(leftM, Event("exit", h[curr].id, startId, st, leftM))

\* if (curr.id !== startId) { stack.pop(); visited.pop(); } and the return, logged as
\* "exit"; st is the state the call was made in, looped the state after the for loop
dfsReturn(h, curr, startId, st, looped) ==
  LET left == IF h[curr].id # startId
                THEN [looped EXCEPT !.stack = Pop(@), !.visited = Pop(@)]
                ELSE looped
  IN  Logged(left, Event("exit", h[curr].id, startId, st, left))

dfsFindLoops(h, ns, curr, startId, st) ==
  dfsReturn(h, curr, startId, st,
            dfsEdgeLoop(h, ns, curr, startId, 1, dfsEnter(h, curr, startId, st)))

RECURSIVE findLoopsRoots(_, _, _, _)

\* the forEach over the roots with a visited list of its own for every root
findLoopsRootsScoped(h, ns, k, st) ==
  IF k > Len(ns) THEN st
  ELSE findLoopsRoots(h, ns, k + 1,
                      dfsFindLoops(h, ns, ns[k], h[ns[k]].id,
                                   [st EXCEPT !.visited = <<>>]))

\* nodes.forEach(node => dfsFindLoops(nodes, node, node.id, ...)) from root k on
findLoopsRoots(h, ns, k, st) ==
  IF k > Len(ns) THEN st
  ELSE findLoopsRoots(h, ns, k + 1, dfsFindLoops(h, ns, ns[k], h[ns[k]].id, st))

\* findAllLoops with visited and stack kept from the call before
findAllLoopsRunStale(h, ns) ==
  findLoopsRoots(h, ns, 1, [visited |-> visited, stack |-> stack, cycles |-> <<>>,
                            trace |-> <<>>])

\* findAllLoops with its locals exposed: [visited, stack, cycles, trace]
findAllLoopsRun(h, ns) ==
  findLoopsRoots(h, ns, 1, [visited |-> <<>>, stack |-> <<>>, cycles |-> <<>>,
                            trace |-> <<>>])

findAllLoops(h, ns) == findAllLoopsRun(h, ns).cycles

(* ------------------- symbolic expression engine ------------------------ *)
(* The engine is an external collaborator; expressions are evaluated over  *)
(* the integers, a homomorphic image of the polynomial algebra.            *)

ExprConst(n) == n

ExprAdd(a, b) == a + b

ExprSubtract(a, b) == a - b

ExprMultiply(a, b) == a * b

(* ------------------- calculateLoopGain, calculateDenominator ----------- *)

RECURSIVE LoopGainFrom(_, _, _)
LoopGainFrom(edges, k, ex) ==
  IF k > Len(edges) THEN ex
  ELSE LoopGainFrom(edges, k + 1, ExprMultiply(ex, edges[k].weight))

calculateLoopGain(edges) == LoopGainFrom(edges, 1, ExprConst(1))

\* allLoops.forEach(loop => denom = denom.subtract(calculateLoopGain(loop)))
RECURSIVE SubtractLoopGains(_, _, _)
SubtractLoopGains(loops, k, d) ==
  IF k > Len(loops) THEN d
  ELSE SubtractLoopGains(loops, k + 1, ExprSubtract(d, calculateLoopGain(loops[k])))

\* loops.forEach(loop => loopGain = loopGain.add(calculateLoopGain(loop)))
RECURSIVE AddLoopGains(_, _, _)
AddLoopGains(loops, k, g) ==
  IF k > Len(loops) THEN g
  ELSE AddLoopGains(loops, k + 1, ExprAdd(g, calculateLoopGain(loops[k])))

\* DenominatorLevel with the two branches of the parity test exchanged
DenominatorLevelFlipped(d, loops, index) ==
  LET loopGainM == AddLoopGains(loops, 1, ExprConst(0)) IN
  IF index % 2 = 0 THEN ExprSubtract(d, loopGainM) ELSE ExprAdd(d, loopGainM)

\* the callback of nonTouching.forEach((loops, index) => ...), index being the key
DenominatorLevel(d, loops, index) ==
  LET loopGain == AddLoopGains(loops, 1, ExprConst(0)) IN
  IF index % 2 = 0 THEN ExprAdd(d, loopGain) ELSE ExprSubtract(d, loopGain)

\* Map.prototype.forEach visits the keys in insertion order, which is ascending here
RECURSIVE DenominatorLevels(_, _, _)
DenominatorLevels(nt, keys, d) ==
  IF keys = {} THEN d
  ELSE LET k == CHOOSE x \in keys : \A y \in keys : x <= y
       IN  DenominatorLevels(nt, keys \ {k}, DenominatorLevel(d, nt[k], k))

calculateDenominator(loops, nt) ==
  DenominatorLevels(nt, DOMAIN nt,
                    SubtractLoopGains(loops, 1, ExprAdd(ExprConst(0), 1)))

(* ---------------------------- findNonTouching -------------------------- *)

\* comparison of two strings by code units, as the default sort compares
RECURSIVE StrLess(_, _)
StrLess(a, b) ==
  IF Len(b) = 0 THEN FALSE
  ELSE IF Len(a) = 0 THEN TRUE
  ELSE IF Head(a) # Head(b) THEN Head(a) < Head(b)
  ELSE StrLess(Tail(a), Tail(b))

RECURSIVE InsertSorted(_, _)
InsertSorted(s, x) ==
  IF Len(s) = 0 THEN <<x>>
  ELSE IF StrLess(x, Head(s)) THEN <<x>> \o s
  ELSE <<Head(s)>> \o InsertSorted(Tail(s), x)

\* Array.prototype.sort() of an array of strings
RECURSIVE SortStrings(_)
SortStrings(s) ==
  IF Len(s) = 0 THEN <<>>
  ELSE InsertSorted(SortStrings(Pop(s)), s[Len(s)])

\* Array.prototype.toString() of an array of strings
RECURSIVE JoinStrings(_)
JoinStrings(s) ==
  IF Len(s) = 0 THEN <<>>
  ELSE IF Len(s) = 1 THEN s[1]
  ELSE s[1] \o <<Comma>> \o JoinStrings(Tail(s))

EdgeIds(loop) == [k \in 1..Len(loop) |-> loop[k].id]

EndNodes(loop) == [k \in 1..Len(loop) |-> loop[k].endNode]

\* concatLoops.map(edge => edge.id).sort().toString()
LoopKey(concatLoops) == JoinStrings(SortStrings(EdgeIds(concatLoops)))

MapSet(m, k, v) == [x \in (DOMAIN m) \cup {k} |-> IF x = k THEN v ELSE m[x]]

MapDelete(m, k) == [x \in (DOMAIN m) \ {k} |-> m[x]]

\* the innerIndex loop; acc = [existingGains, ithNonTouch]
RECURSIVE ntInner(_, _, _, _, _)
ntInner(loops, currLoop, currNodes, innerIndex, acc) ==
  IF innerIndex > Len(loops) THEN acc
  ELSE
    LET remainingLoop  == loops[innerIndex]
        concatLoops    == remainingLoop \o currLoop
        loopGain       == LoopKey(concatLoops)
        remainingNodes == EndNodes(remainingLoop)
        touching       == \E k \in 1..Len(remainingNodes) :
                            Includes(currNodes, remainingNodes[k])
    IN  IF Includes(acc.existingGains, loopGain)
          THEN ntInner(loops, currLoop, currNodes, innerIndex + 1, acc)
        ELSE IF ~touching
          THEN ntInner(loops, currLoop, currNodes, innerIndex + 1,
                       [existingGains |-> Append(acc.existingGains, loopGain),
                        ithNonTouch   |-> Append(acc.ithNonTouch, concatLoops)])
        ELSE ntInner(loops, currLoop, currNodes, innerIndex + 1, acc)

\* the j loop over the previous level
RECURSIVE ntPrev(_, _, _, _)
ntPrev(loops, prevSet, j, acc) ==
  IF j > Len(prevSet) THEN acc
  ELSE ntPrev(loops, prevSet, j + 1,
              ntInner(loops, prevSet[j], EndNodes(prevSet[j]), 1, acc))

\* the i loop; st = [map, existingGains, levels]
RECURSIVE ntLevels(_, _, _)

\* ntLevels with the level counter running one past loops.length
ntLevelsOneMore(loops, i, st) ==
  IF i > Len(loops) + 1 THEN st
  ELSE
    LET prevSetO == st.map[i - 1]
        accO     == ntPrev(loops, prevSetO, 1,
                           [existingGains |-> st.existingGains, ithNonTouch |-> <<>>])
        filledO  == [map           |-> MapSet(st.map, i, accO.ithNonTouch),
                     existingGains |-> accO.existingGains,
                     levels        |-> Append(st.levels, i)]
    IN  IF Len(accO.ithNonTouch) = 0
          THEN [filledO EXCEPT !.map = MapDelete(@, i)]
          ELSE ntLevels(loops, i + 1, filledO)

\* ntLevels without the cleanup and break on an empty level
ntLevelsNoBreak(loops, i, st) ==
  IF i > Len(loops) THEN st
  ELSE
    LET prevSetM == st.map[i - 1]
        accM     == ntPrev(loops, prevSetM, 1,
                           [existingGains |-> st.existingGains, ithNonTouch |-> <<>>])
    IN  ntLevels(loops, i + 1,
                 [map           |-> MapSet(st.map, i, accM.ithNonTouch),
                  existingGains |-> accM.existingGains,
                  levels        |-> Append(st.levels, i)])

ntLevels(loops, i, st) ==
  IF i > Len(loops) THEN st
  ELSE
    LET prevSet == st.map[i - 1]
        acc     == ntPrev(loops, prevSet, 1,
                          [existingGains |-> st.existingGains, ithNonTouch |-> <<>>])
        filled  == [map           |-> MapSet(st.map, i, acc.ithNonTouch),
                    existingGains |-> acc.existingGains,
                    levels        |-> Append(st.levels, i)]
    IN  IF Len(acc.ithNonTouch) = 0
          THEN [filled EXCEPT !.map = MapDelete(@, i)]
          ELSE ntLevels(loops, i + 1, filled)

\* findNonTouching with the values of its level counter exposed: [map, levels]
findNonTouchingRun(loops) ==
  LET st == ntLevels(loops, 2, [map           |-> MapSet(<<>>, 1, loops),
                                existingGains |-> <<>>,
                                levels        |-> <<>>])
  IN  [map |-> MapDelete(st.map, 1), levels |-> st.levels]

findNonTouching(loops) == findNonTouchingRun(loops).map

(* ---------------------------- findForwardPaths ------------------------- *)
(* st = [status, arrays, paths, recorded, expanded].  arrays holds the path   *)
(* arrays the search allocates, by reference; paths is the paths parameter,   *)
(* an array of references to them.  recorded keeps what each array held when  *)
(* it was pushed to paths, expanded what currPath held at each                *)
(* currPath.push(start) that precedes the for loop.  A thrown TypeError is a  *)
(* status that ends every later step.  start and end are node references,     *)
(* 0 standing for undefined.                                                  *)

RECURSIVE findForwardPaths(_, _, _, _, _, _)
RECURSIVE ffpEdgeLoop(_, _, _, _, _, _, _)

findForwardPaths(h, ns, start, end, st, currPath) ==
  IF st.status # "ok" THEN st
  ELSE IF start = end
    THEN LET pushed == [st EXCEPT !.arrays[currPath] = Append(@, start)]
         IN  [pushed EXCEPT !.paths    = Append(@, currPath),
                            !.recorded = Append(@, pushed.arrays[currPath])]
  ELSE IF Includes(st.arrays[currPath], start) THEN st
  ELSE IF start = 0 THEN [st EXCEPT !.status = "TypeError"]
  ELSE IF Len(h[start].outgoingEdges) < 1 THEN st
  ELSE LET pushed == [st EXCEPT !.arrays[currPath] = Append(@, start)]
       IN  ffpEdgeLoop(h, ns, start, end, 1,
                       [pushed EXCEPT !.expanded = Append(@, pushed.arrays[currPath])],
                       currPath)

\* the for loop over start.outgoingEdges; currPathCopy is a newly allocated array
ffpEdgeLoop(h, ns, start, end, i, st, currPath) ==
  IF st.status # "ok" THEN st
  ELSE IF i > Len(h[start].outgoingEdges) THEN st
  ELSE
    LET nextNodeId   == h[start].outgoingEdges[i].endNode
        nextNode     == FindNode(h, ns, nextNodeId)
        currPathCopy == Len(st.arrays) + 1
        copied       == [st EXCEPT !.arrays = Append(@, st.arrays[currPath])]
    IN  ffpEdgeLoop(h, ns, start, end, i + 1,
                    findForwardPaths(h, ns, nextNode, end, copied, currPathCopy),
                    currPath)

\* the arrays the paths parameter refers to, as they are when the search is over
PathArrays(found) == [k \in 1..Len(found.paths) |-> found.arrays[found.paths[k]]]

(* ------------- extractPathEdges, getForwardPathsLoopgains -------------- *)

\* pn.outgoingEdges.find(x => x.endNode === pathNodes[i+1].id)
extractPathEdges(h, pathNodes) ==
  [k \in 1..(Len(pathNodes) - 1) |->
     LET es == h[pathNodes[k]].outgoingEdges
     IN  es[FindEdgeTo(es, h[pathNodes[k + 1]].id)]]

getForwardPathsLoopgains(h, paths) ==
  [k \in 1..Len(paths) |-> calculateLoopGain(extractPathEdges(h, paths[k]))]

(* ------------------------------ subtractNodes -------------------------- *)

\* originalNodes.forEach(n => allnodes_copy.push(n.copy())); acc = [heap, copies]
RECURSIVE CopyAllNodes(_, _, _)
CopyAllNodes(originalNodes, k, acc) ==
  IF k > Len(originalNodes) THEN acc
  ELSE LET c == NodeCopy(acc.heap, originalNodes[k])
       IN  CopyAllNodes(originalNodes, k + 1,
                        [heap |-> c.heap, copies |-> Append(acc.copies, c.ref)])

\* nodesToSubtract.forEach(nts => ...): at most one edge of n is spliced per nts
RECURSIVE PruneEdges(_, _, _, _)
PruneEdges(h, n, nodesToSubtract, k) ==
  IF k > Len(nodesToSubtract) THEN h
  ELSE
    LET edge_i == FindEdgeTo(h[n].outgoingEdges, h[nodesToSubtract[k]].id)
    IN  IF edge_i # 0
          THEN PruneEdges([h EXCEPT ![n].outgoingEdges = Splice1(@, edge_i)],
                          n, nodesToSubtract, k + 1)
          ELSE PruneEdges(h, n, nodesToSubtract, k + 1)

\* allnodes_copy.forEach(n => ...); acc = [heap, subgraph]
RECURSIVE SubtractLoop(_, _, _, _)
SubtractLoop(copies, nodesToSubtract, k, acc) ==
  IF k > Len(copies) THEN acc
  ELSE
    LET n == copies[k] IN
    IF ~Includes(nodesToSubtract, n) /\ Len(acc.heap[n].outgoingEdges) > 0
      THEN SubtractLoop(copies, nodesToSubtract, k + 1,
                        [heap     |-> PruneEdges(acc.heap, n, nodesToSubtract, 1),
                         subgraph |-> Append(acc.subgraph, n)])
      ELSE SubtractLoop(copies, nodesToSubtract, k + 1, acc)

\* subtractNodes: the heap after the call and the returned array of references
subtractNodes(h, originalNodes, nodesToSubtract) ==
  LET copied == CopyAllNodes(originalNodes, 1, [heap |-> h, copies |-> <<>>])
  IN  SubtractLoop(copied.copies, nodesToSubtract, 1,
                   [heap |-> copied.heap, subgraph |-> <<>>])

(* ---------------------------- calculateNumerator ----------------------- *)

\* the node objects an array of references names
NodesOf(h, ns) == [k \in 1..Len(ns) |-> h[ns[k]]]

\* DeltaPush pushing a cofactor only for a subgraph that has a loop
DeltaPushSkipping(acc, sub, subLoops) ==
  [heap      |-> sub.heap,
   delta_k   |-> IF Len(subLoops) = 0 THEN acc.delta_k
                 ELSE Append(acc.delta_k,
                             calculateDenominator(subLoops, findNonTouching(subLoops))),
   residuals |-> Append(acc.residuals, subLoops),
   subgraphs |-> Append(acc.subgraphs, NodesOf(sub.heap, sub.subgraph))]

\* the body of paths.forEach(p => ...) once allLoops is known: d_k is pushed, and the
\* cycles and the nodes of the subgraph are kept for inspection
DeltaPush(acc, sub, subLoops) ==
  [heap      |-> sub.heap,
   delta_k   |-> Append(acc.delta_k,
                        calculateDenominator(subLoops, findNonTouching(subLoops))),
   residuals |-> Append(acc.residuals, subLoops),
   subgraphs |-> Append(acc.subgraphs, NodesOf(sub.heap, sub.subgraph))]

\* the body of paths.forEach(p => ...) once the subgraph is known
DeltaStep(acc, sub) == DeltaPush(acc, sub, findAllLoops(sub.heap, sub.subgraph))

\* paths.forEach(p => ...): acc = [heap, delta_k, residuals, subgraphs]; residuals
\* keeps, per path, the cycles found on its subgraph, subgraphs the subgraph's nodes
RECURSIVE DeltaLoop(_, _, _, _)
DeltaLoop(ns, paths, k, acc) ==
  IF k > Len(paths) THEN acc
  ELSE DeltaLoop(ns, paths, k + 1,
                 DeltaStep(acc, subtractNodes(acc.heap, ns, paths[k])))

\* for (i ...) numer = numer.add(forwardLoopgains[i].multiply(delta_k[i]))
RECURSIVE SumProducts(_, _, _, _)
SumProducts(gains, deltas, k, sum) ==
  IF k > Len(gains) THEN sum
  ELSE SumProducts(gains, deltas, k + 1,
                   ExprAdd(sum, ExprMultiply(gains[k], deltas[k])))

\* the sanity check and the sum of P_k * delta_k: status "ok" with a value, or
\* "undefined" when the two arrays differ in length
assembleNumerator(forwardLoopgains, delta_k) ==
  IF Len(forwardLoopgains) = Len(delta_k)
    THEN [status |-> "ok",
          value  |-> SumProducts(forwardLoopgains, delta_k, 1, ExprConst(0))]
    ELSE [status |-> "undefined", value |-> 0]

\* calculateNumerator from the sanity check on
numeratorAfterDeltas(found, paths, forwardLoopgains, deltas) ==
  LET sum == assembleNumerator(forwardLoopgains, deltas.delta_k)
  IN  [status |-> sum.status, value |-> sum.value, heap |-> deltas.heap,
       paths |-> paths, recorded |-> found.recorded,
       expanded |-> found.expanded, gains |-> forwardLoopgains,
       deltas |-> deltas.delta_k,
       residuals |-> deltas.residuals, subgraphs |-> deltas.subgraphs]

\* calculateNumerator after findForwardPaths: a TypeError thrown by the search ends
\* the call
numeratorAfterPaths(h, ns, found, paths) ==
  IF found.status # "ok"
    THEN [status |-> found.status, value |-> 0, heap |-> h,
          paths |-> paths, recorded |-> found.recorded,
          expanded |-> found.expanded, gains |-> <<>>, deltas |-> <<>>,
          residuals |-> <<>>, subgraphs |-> <<>>]
    ELSE numeratorAfterDeltas(found, paths, getForwardPathsLoopgains(h, paths),
                              DeltaLoop(ns, paths, 1,
                                        [heap |-> h, delta_k |-> <<>>,
                                         residuals |-> <<>>, subgraphs |-> <<>>]))

\* the search of calculateNumerator: curr_path = [] is array 1, paths is empty
numeratorPaths(h, ns, start, end) ==
  findForwardPaths(h, ns, start, end,
                   [status |-> "ok", arrays |-> << <<>> >>, paths |-> <<>>,
                    recorded |-> <<>>, expanded |-> <<>>], 1)

\* the outcome of calculateNumerator(start, end, nodes) and the heap it leaves:
\* status "ok" with a value, "undefined" for the mismatch branch, or "TypeError";
\* the other fields expose its locals and the history of the path search
numeratorFound(h, ns, found) == numeratorAfterPaths(h, ns, found, PathArrays(found))

calculateNumerator(h, startId, endId, ns) ==
  numeratorFound(h, ns, numeratorPaths(h, ns, FindNode(h, ns, startId),
                                       FindNode(h, ns, endId)))

(* ------------------------------ actions -------------------------------- *)

Init ==
  /\ heap = [k \in 1..Len(NodeIdList) |-> Node(NodeIdList[k], k)]
  /\ nodes = [k \in 1..Len(NodeIdList) |-> k]
  /\ phase = "build"
  /\ visited = <<>>
  /\ stack = <<>>
  /\ allLoops = <<>>
  /\ firstLoops = <<>>
  /\ loopCalls = 0
  /\ dfsTrace = <<>>
  /\ nonTouching = <<>>
  /\ levels = <<>>
  /\ denom = 0
  /\ numReq = <<>>
  /\ numer = [status |-> "none", value |-> 0, paths |-> <<>>, recorded |-> <<>>,
              expanded |-> <<>>, gains |-> <<>>, deltas |-> <<>>,
              residuals |-> <<>>, subgraphs |-> <<>>]

BuilderPushUnique ==
  /\ phase = "build"
  /\ NumEdges(heap, nodes) < MaxEdges
  /\ \E n \in 1..Len(nodes), d \in DestIds :
       heap' = [heap EXCEPT ![n].outgoingEdges =
                  PushEdgeUnique(@, WeightOf(n, Len(@) + 1), heap[n].id, d)]
  /\ UNCHANGED <<nodes, phase, visited, stack, allLoops, firstLoops, loopCalls,
                 dfsTrace, nonTouching, levels, denom, numReq, numer>>

BuilderPushPlain ==
  /\ phase = "build"
  /\ NumEdges(heap, nodes) < MaxEdges
  /\ \E n \in 1..Len(nodes), d \in DestIds :
       heap' = [heap EXCEPT ![n].outgoingEdges =
                  PushEdgePlain(@, WeightOf(n, Len(@) + 1), heap[n].id, d)]
  /\ UNCHANGED <<nodes, phase, visited, stack, allLoops, firstLoops, loopCalls,
                 dfsTrace, nonTouching, levels, denom, numReq, numer>>

\* computeLoopGain, then computeMasons: const allLoops = findAllLoops(nodes).
\* A repeated call ("again") is followed by no further analysis.
CallFindAllLoops ==
  /\ phase \in {"build", "loops", "again"}
  /\ loopCalls < MaxLoopCalls
  /\ \E run \in {findAllLoopsRun(heap, nodes)} :
       /\ visited' = run.visited
       /\ stack' = run.stack
       /\ allLoops' = run.cycles
       /\ dfsTrace' = run.trace
  /\ firstLoops' = allLoops
  /\ loopCalls' = loopCalls + 1
  /\ phase' = IF phase = "build" THEN "loops" ELSE "again"
  /\ UNCHANGED <<heap, nodes, nonTouching, levels, denom, numReq, numer>>

\* computeMasons: const nonTouchingLoops = findNonTouching(allLoops)
CallFindNonTouching ==
  /\ phase = "loops"
  /\ \E run \in {findNonTouchingRun(allLoops)} :
       /\ nonTouching' = run.map
       /\ levels' = run.levels
  /\ phase' = "nontouching"
  /\ UNCHANGED <<heap, nodes, visited, stack, allLoops, firstLoops, loopCalls,
                 dfsTrace, denom, numReq, numer>>

\* computeMasons: const denom = calculateDenominator(allLoops, nonTouchingLoops)
CallCalculateDenominator ==
  /\ phase = "nontouching"
  /\ denom' = calculateDenominator(allLoops, nonTouching)
  /\ phase' = "denom"
  /\ UNCHANGED <<heap, nodes, visited, stack, allLoops, firstLoops, loopCalls,
                 dfsTrace, nonTouching, levels, numReq, numer>>

\* computeMasons: const numer = calculateNumerator(start, end, nodes).  The copies
\* made by subtractNodes are garbage when the call returns; the heap keeps the
\* objects of the graph as the call left them.
CallCalculateNumerator ==
  /\ phase = "denom"
  /\ \E s \in 1..Len(NodeIdList), e \in 1..Len(NodeIdList) :
       \E out \in {calculateNumerator(heap, NodeIdList[s], NodeIdList[e], nodes)} :
         /\ numReq' = <<NodeIdList[s], NodeIdList[e]>>
         /\ numer' = [status |-> out.status, value |-> out.value,
                      paths |-> out.paths, recorded |-> out.recorded,
                      expanded |-> out.expanded, gains |-> out.gains,
                      deltas |-> out.deltas, residuals |-> out.residuals,
                      subgraphs |-> out.subgraphs]
         /\ heap' = SubSeq(out.heap, 1, Len(heap))
  /\ phase' = "numer"
  /\ UNCHANGED <<nodes, visited, stack, allLoops, firstLoops, loopCalls,
                 dfsTrace, nonTouching, levels, denom>>

Next ==
  \/ BuilderPushUnique
  \/ BuilderPushPlain
  \/ CallFindAllLoops
  \/ CallFindNonTouching
  \/ CallCalculateDenominator
  \/ CallCalculateNumerator

Spec == Init /\ [][Next]_vars

(* ======================= reference definitions ========================= *)
(* Brute-force enumerations the results of the code are compared with.     *)

\* an edge of the graph, named by its owner's reference and its position
Slots(h, ns) ==
  UNION {{<<ns[k], j>> : j \in 1..Len(h[ns[k]].outgoingEdges)} : k \in 1..Len(ns)}

SlotEdge(h, sl) == h[sl[1]].outgoingEdges[sl[2]]

PositionIn(ns, r) == CHOOSE k \in 1..Len(ns) : ns[k] = r

\* w, a sequence of slots, is a closed walk that repeats no node
IsSimpleClosedWalk(h, ns, w) ==
  /\ \A k \in 1..Len(w) :
       FindNode(h, ns, SlotEdge(h, w[k]).endNode) = w[(k % Len(w)) + 1][1]
  /\ \A k, l \in 1..Len(w) : k # l => w[k][1] # w[l][1]

\* every simple cycle once: the rotation that starts at its first node in array order
SimpleCycles(h, ns) ==
  {w \in UNION {[1..L -> Slots(h, ns)] : L \in 1..Len(ns)} :
     /\ IsSimpleClosedWalk(h, ns, w)
     /\ \A k \in 2..Len(w) : PositionIn(ns, w[1][1]) < PositionIn(ns, w[k][1])}

WalkEdges(h, w) == [k \in 1..Len(w) |-> SlotEdge(h, w[k])]

IsRotation(a, b) ==
  /\ Len(a) = Len(b)
  /\ \E r \in 0..(Len(a) - 1) : \A k \in 1..Len(a) : a[k] = b[((k - 1 + r) % Len(a)) + 1]

\* an edge sequence that is non-empty, contiguous, closed and repeats no node
IsCycleEntry(c) ==
  /\ Len(c) >= 1
  /\ \A k \in 1..Len(c) : c[k].endNode = c[(k % Len(c)) + 1].startNode
  /\ \A k, l \in 1..Len(c) : k # l => c[k].startNode # c[l].startNode

IsDangling(h, ns, sl) == FindNode(h, ns, SlotEdge(h, sl).endNode) = 0

RemoveEdge(h, sl) == [h EXCEPT ![sl[1]].outgoingEdges = Splice1(@, sl[2])]

\* the node ids a loop or a combination of loops visits
LoopNodes(c) == {c[k].endNode : k \in 1..Len(c)}

EdgeSet(c) == {c[k] : k \in 1..Len(c)}

\* the sets of k loops (by index) that pairwise share no node
NonTouchingSets(loops, k) ==
  {S \in SUBSET (1..Len(loops)) :
     /\ Cardinality(S) = k
     /\ \A a, b \in S : a # b => LoopNodes(loops[a]) \cap LoopNodes(loops[b]) = {}}

RECURSIVE TotalLen(_, _)
TotalLen(loops, S) ==
  IF S = {} THEN 0
  ELSE LET a == CHOOSE x \in S : TRUE
       IN  Len(loops[a]) + TotalLen(loops, S \ {a})

\* entry is the concatenation, in some order, of the loops S names
IsEntryOf(entry, loops, S) ==
  /\ EdgeSet(entry) = UNION {EdgeSet(loops[a]) : a \in S}
  /\ Len(entry) = TotalLen(loops, S)

LevelOf(nt, k) == IF k \in DOMAIN nt THEN nt[k] ELSE <<>>

RECURSIVE GainProduct(_)
GainProduct(c) == IF Len(c) = 0 THEN 1 ELSE Head(c).weight * GainProduct(Tail(c))

RECURSIVE SumOfGains(_)
SumOfGains(entries) ==
  IF Len(entries) = 0 THEN 0 ELSE GainProduct(Head(entries)) + SumOfGains(Tail(entries))

RECURSIVE SumOfLevels(_, _)
SumOfLevels(nt, K) ==
  IF K = {} THEN 0
  ELSE LET k == CHOOSE x \in K : TRUE
       IN  SumOfGains(nt[k]) + SumOfLevels(nt, K \ {k})

\* 1 - (loop gains) + (even levels) - (odd levels from 3 on)
AlternatingSum(loops, nt) ==
  1 - SumOfGains(loops)
    + SumOfLevels(nt, {k \in DOMAIN nt : k % 2 = 0})
    - SumOfLevels(nt, {k \in DOMAIN nt : k % 2 = 1 /\ k >= 3})

\* w, a sequence of slots, is a simple forward path from node a to node b
IsForwardPath(h, ns, w, a, b) ==
  IF Len(w) = 0 THEN a = b
  ELSE /\ a # b
       /\ w[1][1] = a
       /\ \A k \in 1..(Len(w) - 1) :
            FindNode(h, ns, SlotEdge(h, w[k]).endNode) = w[k + 1][1]
       /\ FindNode(h, ns, SlotEdge(h, w[Len(w)]).endNode) = b
       /\ \A k, l \in 1..Len(w) : k # l => w[k][1] # w[l][1]
       /\ \A k \in 1..Len(w) : w[k][1] # b

ForwardPaths(h, ns, a, b) ==
  {w \in UNION {[1..L -> Slots(h, ns)] : L \in 0..(Len(ns) - 1)} :
     IsForwardPath(h, ns, w, a, b)}

\* the node references on a forward path from a to b
PathNodeRefs(w, b) == {w[k][1] : k \in 1..Len(w)} \cup {b}

RECURSIVE KeepEdges(_, _)
KeepEdges(edges, gone) ==
  IF Len(edges) = 0 THEN <<>>
  ELSE IF Head(edges).endNode \in gone THEN KeepEdges(Tail(edges), gone)
  ELSE <<Head(edges)>> \o KeepEdges(Tail(edges), gone)

RECURSIVE KeepNodes(_, _)
KeepNodes(ns, P) ==
  IF Len(ns) = 0 THEN <<>>
  ELSE IF Head(ns) \in P THEN KeepNodes(Tail(ns), P)
  ELSE <<Head(ns)>> \o KeepNodes(Tail(ns), P)

\* the graph with the nodes P deleted, as members and as destinations
DeletedHeap(h, P) ==
  [r \in DOMAIN h |-> [h[r] EXCEPT !.outgoingEdges = KeepEdges(@, {h[q].id : q \in P})]]

\* the denominator computed on the graph with the nodes P deleted
CofactorOf(h, ns, P) ==
  LET loops == findAllLoops(DeletedHeap(h, P), KeepNodes(ns, P))
  IN  calculateDenominator(loops, findNonTouching(loops))

RECURSIVE MasonSum(_, _, _, _)
MasonSum(h, ns, W, b) ==
  IF W = {} THEN 0
  ELSE LET w == CHOOSE x \in W : TRUE
       IN  GainProduct(WalkEdges(h, w)) * CofactorOf(h, ns, PathNodeRefs(w, b))
             + MasonSum(h, ns, W \ {w}, b)

MasonNumerator(h, ns, a, b) == MasonSum(h, ns, ForwardPaths(h, ns, a, b), b)

\* the nodes reached from node a over resolvable edges, a included
RECURSIVE ReachFrom(_, _, _, _)
ReachFrom(h, ns, R, n) ==
  IF n = 0 THEN R
  ELSE ReachFrom(h, ns,
                 R \cup ({FindNode(h, ns, SlotEdge(h, sl).endNode) :
                            sl \in {x \in Slots(h, ns) : x[1] \in R}} \ {0}),
                 n - 1)

Reachable(h, ns, a) == ReachFrom(h, ns, {a}, Len(ns))

StartRef == FindNode(heap, nodes, numReq[1])

EndRef == FindNode(heap, nodes, numReq[2])

(* ============================== claims ================================= *)

\* C1: findAllLoops returns every simple directed cycle of the graph exactly once:
\* each entry is a non-empty closed edge walk without a repeated node, every simple
\* cycle is present once and in no second rotation, a self-loop edge yields exactly
\* one 1-edge cycle, and cycles through different parallel edges are distinct entries.
C1_AllSimpleCyclesOnce ==
  phase = "loops" =>
    /\ \A k \in 1..Len(allLoops) : IsCycleEntry(allLoops[k])
    /\ \A w \in SimpleCycles(heap, nodes) :
         Cardinality({k \in 1..Len(allLoops) :
                        IsRotation(allLoops[k], WalkEdges(heap, w))}) = 1
    /\ Len(allLoops) = Cardinality(SimpleCycles(heap, nodes))
    /\ \A sl \in Slots(heap, nodes) :
         SlotEdge(heap, sl).endNode = heap[sl[1]].id =>
           Cardinality({k \in 1..Len(allLoops) :
                          allLoops[k] = <<SlotEdge(heap, sl)>>}) = 1

\* a self-loop, a longer cycle, and two cycles over the same nodes through parallel edges
C1_Witness ==
  /\ phase = "loops"
  /\ \E k \in 1..Len(allLoops) : Len(allLoops[k]) = 1
  /\ \E k, l \in 1..Len(allLoops) :
       /\ k # l
       /\ Len(allLoops[k]) >= 2
       /\ EndNodes(allLoops[k]) = EndNodes(allLoops[l])

C9_DanglingEdgeSkipped ==
  phase = "loops" =>
    \A sl \in Slots(heap, nodes) :
      IsDangling(heap, nodes, sl) =>
        allLoops = findAllLoops(RemoveEdge(heap, sl), nodes)

\* a dangling edge placed before an edge of the same node that lies on a cycle
C9_Witness ==
  /\ phase = "loops"
  /\ \E sl \in Slots(heap, nodes) :
       /\ IsDangling(heap, nodes, sl)
       /\ \E k \in 1..Len(allLoops) : \E j \in 1..Len(allLoops[k]) :
            /\ allLoops[k][j].startNode = heap[sl[1]].id
            /\ \E p \in (sl[2] + 1)..Len(heap[sl[1]].outgoingEdges) :
                 heap[sl[1]].outgoingEdges[p] = allLoops[k][j]

\* C2: for every k >= 2, level k of the map returned by findNonTouching holds exactly
\* one entry for each set of k pairwise node-disjoint loops (the concatenation of
\* those loops) and no other entry; loops that differ only by a parallel edge give
\* separate entries.
C2_OneEntryPerNonTouchingSet ==
  phase = "nontouching" =>
    \A k \in 2..Len(allLoops) :
      LET sets  == NonTouchingSets(allLoops, k)
          level == LevelOf(nonTouching, k)
      IN  /\ Len(level) = Cardinality(sets)
          /\ \A S \in sets :
               Cardinality({e \in 1..Len(level) : IsEntryOf(level[e], allLoops, S)}) = 1
          /\ \A e \in 1..Len(level) : \E S \in sets : IsEntryOf(level[e], allLoops, S)

\* C3: calculateDenominator returns 1 minus the loop gains, plus the gains of the even
\* levels, minus the gains of the odd levels from 3 on; no loop gives 1, one self-loop
\* of gain f gives 1 - f, two disjoint loops give 1 - g1 - g2 + g1*g2.
C3_DenominatorAlternatingSum ==
  phase = "denom" =>
    /\ denom = AlternatingSum(allLoops, nonTouching)
    /\ (Len(allLoops) = 0 => denom = 1)
    /\ ((Len(allLoops) = 1 /\ Len(allLoops[1]) = 1) =>
          denom = 1 - allLoops[1][1].weight)
    /\ ((Len(allLoops) = 2 /\ LoopNodes(allLoops[1]) \cap LoopNodes(allLoops[2]) = {}) =>
          denom = 1 - GainProduct(allLoops[1]) - GainProduct(allLoops[2])
                    + GainProduct(allLoops[1]) * GainProduct(allLoops[2]))

\* a denominator with individual loops, a level 2 and a level 3
C3_Witness ==
  /\ phase = "denom"
  /\ DOMAIN nonTouching = {2, 3}
  /\ denom = AlternatingSum(allLoops, nonTouching)

\* C4: calculateNumerator returns the sum, over the simple forward paths P from start
\* to end, of the product of the edge weights along P times the denominator computed
\* on the graph with every node of P deleted.
C4_NumeratorIsMasonSum ==
  phase = "numer" =>
    /\ numer.status = "ok"
    /\ numer.value = MasonNumerator(heap, nodes, StartRef, EndRef)

\* C5: no cycle found on the residual graph of a forward path P visits a node of P.
C5_ResidualCyclesAvoidPath ==
  (phase = "numer" /\ numer.status = "ok") =>
    \A k \in 1..Len(numer.paths) :
      \A c \in 1..Len(numer.residuals[k]) :
        LoopNodes(numer.residuals[k][c])
          \cap {heap[numer.paths[k][j]].id : j \in 1..Len(numer.paths[k])} = {}

\* C6: calculateNumerator leaves the graph it was given unchanged: the nodes array
\* and every node's id, value and ordered outgoing edges are as before the call.
C6_NumeratorLeavesGraph ==
  [][phase' = "numer" => (heap' = heap /\ nodes' = nodes)]_vars

\* a call that found a path and pruned, on a copy, an edge of a node into the path
C6_Witness ==
  /\ phase = "numer"
  /\ numer.status = "ok"
  /\ \E k \in 1..Len(numer.paths) :
       \E sl \in Slots(heap, nodes) :
         /\ ~Includes(numer.paths[k], sl[1])
         /\ Includes(numer.paths[k], FindNode(heap, nodes, SlotEdge(heap, sl).endNode))

\* C8: the map returned by findNonTouching has no key 1 and no empty level: its keys
\* are 2..m for some m >= 1, and the level counter stops at the first empty level.
C8_LevelsContiguousNonEmpty ==
  phase \in {"nontouching", "denom", "numer"} =>
    /\ 1 \notin DOMAIN nonTouching
    /\ \E m \in 1..(Len(allLoops) + 1) :
         /\ DOMAIN nonTouching = 2..m
         /\ \A k \in 1..Len(levels) : levels[k] = k + 1 /\ levels[k] <= m + 1
         /\ Len(levels) >= m - 1
    /\ \A k \in DOMAIN nonTouching : Len(nonTouching[k]) > 0

\* a map with levels 2 and 3, and a run that met an empty level after a full one
C8_Witness ==
  /\ phase = "nontouching"
  /\ \/ DOMAIN nonTouching = {2, 3}
     \/ DOMAIN nonTouching = {2} /\ levels = <<2, 3>>

\* C10: in calculateNumerator an edge reachable from the start node whose destination
\* does not resolve is skipped without an error, and the numerator is the one
\* returned for the graph without that edge.
C10_DanglingEdgeSkippedInNumerator ==
  phase = "numer" =>
    \A sl \in Slots(heap, nodes) :
      (IsDangling(heap, nodes, sl) /\ sl[1] \in Reachable(heap, nodes, StartRef)) =>
        LET without == calculateNumerator(RemoveEdge(heap, sl), numReq[1], numReq[2], nodes)
        IN  /\ numer.status = "ok"
            /\ numer.value = without.value

\* C11: when start and end resolve and no directed path leads from start to end,
\* calculateNumerator completes without error and returns 0: no path is recorded and
\* no cofactor is computed.
C11_NoPathGivesZero ==
  (phase = "numer" /\ ForwardPaths(heap, nodes, StartRef, EndRef) = {}) =>
    /\ numer.status = "ok"
    /\ numer.value = 0
    /\ numer.paths = <<>>
    /\ numer.deltas = <<>>

\* C13: whenever calculateNumerator assembles the sum, there are as many forward-path
\* gains as cofactors, so the mismatch branch is not taken; had the counts differed,
\* the outcome would be the failure value and no partial sum.
C13_GainsMatchCofactors ==
  (phase = "numer" /\ numer.status # "TypeError") =>
    /\ Len(numer.gains) = Len(numer.deltas)
    /\ Len(numer.gains) = Len(numer.paths)
    /\ numer.status = "ok"
    /\ numer.value = SumProducts(numer.gains, numer.deltas, 1, 0)
    /\ (Len(numer.deltas) > 0 =>
          assembleNumerator(numer.gains, Pop(numer.deltas)) =
            [status |-> "undefined", value |-> 0])

\* a sum assembled from two paths, one of them with a cofactor other than 1
C13_Witness ==
  /\ phase = "numer"
  /\ numer.status = "ok"
  /\ Len(numer.gains) >= 2
  /\ \E k \in 1..Len(numer.deltas) : numer.deltas[k] # 1

\* C14: the residual graph returned by subtractNodes(nodes, P) contains no node of P,
\* neither as a member nor as the destination of a remaining edge.
C14_ResidualHasNoPathNode ==
  (phase = "numer" /\ numer.status = "ok") =>
    \A k \in 1..Len(numer.paths) :
      LET pathIds == {heap[numer.paths[k][j]].id : j \in 1..Len(numer.paths[k])}
          sub     == numer.subgraphs[k]
      IN  \A n \in 1..Len(sub) :
            /\ sub[n].id \notin pathIds
            /\ \A j \in 1..Len(sub[n].outgoingEdges) :
                 sub[n].outgoingEdges[j].endNode \notin pathIds

\* the edge sequences from node a to node b that follow the node path p
WalksAlong(h, ns, p) ==
  {w \in [1..(Len(p) - 1) -> Slots(h, ns)] :
     \A k \in 1..(Len(p) - 1) :
       /\ w[k][1] = p[k]
       /\ FindNode(h, ns, SlotEdge(h, w[k]).endNode) = p[k + 1]}

\* C15: the numerator has one term per distinct edge sequence from start to end, and
\* the gain of a term is the product of the weights of the edges that sequence
\* traverses: two parallel edges on the route contribute their two weights, one each.
C15_OneTermPerEdgeSequence ==
  (phase = "numer" /\ numer.status = "ok") =>
    /\ Len(numer.gains) = Cardinality(ForwardPaths(heap, nodes, StartRef, EndRef))
    /\ \A w \in ForwardPaths(heap, nodes, StartRef, EndRef) :
         Cardinality({k \in 1..Len(numer.gains) :
                        /\ w \in WalksAlong(heap, nodes, numer.paths[k])
                        /\ numer.gains[k] = GainProduct(WalkEdges(heap, w))})
           >= 1
    /\ \A p \in {numer.paths[k] : k \in 1..Len(numer.paths)} :
         \A w \in WalksAlong(heap, nodes, p) :
           Cardinality({k \in 1..Len(numer.paths) : numer.paths[k] = p
                          /\ numer.gains[k] = GainProduct(WalkEdges(heap, w))}) = 1

\* C19: Node.copy returns a node equal by value to the original (same id and value,
\* the same ordered edges with the same weight, source, destination and edge id,
\* suffixed ids included) and independent of it: removing an edge from the copy
\* leaves the original's edge list as it was.
C19_CopyEqualByValue ==
  \A k \in 1..Len(nodes) :
    LET orig == heap[nodes[k]]
        c    == NodeCopy(heap, nodes[k])
        cut  == [c.heap EXCEPT ![c.ref].outgoingEdges = Pop(@)]
    IN  /\ c.ref # nodes[k]
        /\ c.heap[c.ref].id = orig.id
        /\ c.heap[c.ref].value = orig.value
        /\ Len(c.heap[c.ref].outgoingEdges) = Len(orig.outgoingEdges)
        /\ \A j \in 1..Len(orig.outgoingEdges) :
             /\ c.heap[c.ref].outgoingEdges[j].weight = orig.outgoingEdges[j].weight
             /\ c.heap[c.ref].outgoingEdges[j].startNode = orig.outgoingEdges[j].startNode
             /\ c.heap[c.ref].outgoingEdges[j].endNode = orig.outgoingEdges[j].endNode
             /\ c.heap[c.ref].outgoingEdges[j].id = orig.outgoingEdges[j].id
        /\ cut[nodes[k]] = orig

\* two loops that share no node: the combinations findNonTouching records
Disjoint(x, y) == LoopNodes(x) \cap LoopNodes(y) = {}

\* the level-2 candidates remainingLoop.concat(currLoop) over a list of loops
Candidates(loops) ==
  {loops[a] \o loops[b] : a, b \in 1..Len(loops)}

KeyIdentifies(loops) ==
  \A x, y \in {c \in Candidates(loops) :
                 \E a, b \in 1..Len(loops) :
                   c = loops[a] \o loops[b] /\ Disjoint(loops[a], loops[b])} :
    (LoopKey(x) = LoopKey(y)) <=> (EdgeSet(x) = EdgeSet(y))

\* C20: two candidate combinations of findNonTouching receive the same key if and
\* only if they consist of the same set of edges, on the graph handed to the core
\* and on the residual graphs produced by subtractNodes.
C20_KeyIdentifiesCombination ==
  /\ (phase # "build") => KeyIdentifies(allLoops)
  /\ (phase = "numer" /\ numer.status = "ok") =>
       \A k \in 1..Len(numer.residuals) : KeyIdentifies(numer.residuals[k])

\* the node paths from a to b that repeat no node and follow an edge at every step
SimpleNodePaths(h, ns, a, b) ==
  {p \in UNION {[1..L -> {ns[k] : k \in 1..Len(ns)}] : L \in 1..Len(ns)} :
     /\ p[1] = a
     /\ p[Len(p)] = b
     /\ \A k, l \in 1..Len(p) : k # l => p[k] # p[l]
     /\ \A k \in 1..(Len(p) - 1) :
          \E j \in 1..Len(h[p[k]].outgoingEdges) :
            FindNode(h, ns, h[p[k]].outgoingEdges[j].endNode) = p[k + 1]}

\* C12: the forward-path search records exactly the simple directed paths from start
\* to end (each begins at start, ends at end, repeats no node and follows an edge at
\* every step; every such path is recorded), and a recorded path still holds at the
\* end of the search what it held when it was recorded.
C12_RecordsSimplePaths ==
  (phase = "numer") =>
    /\ {numer.paths[k] : k \in 1..Len(numer.paths)}
         = SimpleNodePaths(heap, nodes, StartRef, EndRef)
    /\ numer.paths = numer.recorded

\* the events of the last findAllLoops call
Events == {dfsTrace[k] : k \in 1..Len(dfsTrace)}

\* the position in the nodes array of the node with the given id
IndexOfId(id) == CHOOSE k \in 1..Len(nodes) : heap[nodes[k]].id = id

\* the ids of the first n nodes of the nodes array
FirstIds(n) == [j \in 1..n |-> heap[nodes[j]].id]

\* C16 as stated: the visited list is scoped to one root's search, so that no node
\* is marked when the DFS from a root begins, and the root is marked during its own
\* search.
C16_VisitedScopedToRoot ==
  \A ev \in Events :
    /\ (ev.kind = "enter" /\ ev.curr = ev.root) => ev.visitedIn = <<>>
    /\ Includes(ev.visited, ev.root)

\* C16 (amended): the visited list is shared by all the roots of one findAllLoops
\* call.  When the DFS from the k-th node begins, exactly the k-1 earlier roots are
\* marked; a root is still marked when its search completes and when findAllLoops
\* returns; so no search ever enters a node that was an earlier root.  A node other
\* than the root is unmarked when its call returns.
C16_VisitedSharedAcrossRoots ==
  (phase # "build") =>
    /\ \A ev \in Events :
         /\ (ev.kind = "enter" /\ ev.curr = ev.root) =>
              ev.visitedIn = FirstIds(IndexOfId(ev.root) - 1)
         /\ (ev.kind = "enter" /\ ev.curr # ev.root) =>
              IndexOfId(ev.curr) > IndexOfId(ev.root)
         /\ (ev.kind = "exit" /\ ev.curr = ev.root) =>
              ev.visited = FirstIds(IndexOfId(ev.root))
         /\ (ev.kind = "exit" /\ ev.curr # ev.root) =>
              ev.visited = ev.visitedIn
    /\ visited = FirstIds(Len(nodes))

\* a later root has an edge to an earlier root, which its search does not enter
C16_Witness ==
  /\ phase = "loops"
  /\ \E sl \in Slots(heap, nodes) :
       /\ ~IsDangling(heap, nodes, sl)
       /\ PositionIn(nodes, FindNode(heap, nodes, SlotEdge(heap, sl).endNode))
            < PositionIn(nodes, sl[1])
  /\ \E ev \in Events : ev.kind = "enter" /\ ev.curr # ev.root

\* an edge sequence that leads from node id a to node id b through distinct nodes
IsWalkBetween(c, a, b) ==
  IF Len(c) = 0 THEN a = b
  ELSE /\ c[1].startNode = a
       /\ c[Len(c)].endNode = b
       /\ \A k \in 1..(Len(c) - 1) : c[k].endNode = c[k + 1].startNode
       /\ \A k, l \in 1..Len(c) : k # l => c[k].endNode # c[l].endNode
       /\ \A k \in 1..Len(c) : c[k].endNode # a

\* C17: on each entry to dfsFindLoops for curr the edge stack is a contiguous walk
\* from the root to curr through pairwise distinct nodes, which are the most recent
\* entries of visited; a return from a call for a node other than the root removes
\* exactly the edge that led to the node and the node's mark; recording a cycle
\* leaves the stack as it was; when a root's search completes the stack is empty.
C17_StateRestoredOnExit ==
  (phase # "build") =>
    /\ \A ev \in Events :
         /\ (ev.kind = "enter") =>
              /\ IsWalkBetween(ev.stack, ev.root, ev.curr)
              /\ Len(ev.visited) > Len(ev.stack)
              /\ SubSeq(ev.visited, Len(ev.visited) - Len(ev.stack), Len(ev.visited))
                   = <<ev.root>> \o EndNodes(ev.stack)
         /\ (ev.kind = "exit" /\ ev.curr # ev.root) =>
              /\ Len(ev.stackIn) > 0
              /\ ev.stackIn[Len(ev.stackIn)].endNode = ev.curr
              /\ ev.stack = Pop(ev.stackIn)
              /\ ev.visited = ev.visitedIn
         /\ (ev.kind = "cycle") =>
              /\ ev.stack = ev.stackIn
              /\ ev.visited = ev.visitedIn
         /\ (ev.kind = "exit" /\ ev.curr = ev.root) => ev.stack = <<>>
    /\ stack = <<>>

\* a search two edges deep that records a cycle on a non-empty stack and returns
C17_Witness ==
  /\ phase = "loops"
  /\ \E ev \in Events : ev.kind = "enter" /\ Len(ev.stack) >= 2
  /\ \E ev \in Events : ev.kind = "cycle" /\ Len(ev.stackIn) >= 1
  /\ \E ev \in Events : ev.kind = "exit" /\ ev.curr # ev.root

NoDanglingEdge == \A sl \in Slots(heap, nodes) : ~IsDangling(heap, nodes, sl)

\* at most loops.length - 1 values of the level counter
LevelsBounded(loops, lv) == Len(lv) <= IF Len(loops) = 0 THEN 0 ELSE Len(loops) - 1

\* C18: on a graph whose edge destinations all resolve, findAllLoops, findNonTouching
\* and calculateNumerator complete: no call of the cycle search or of the path search
\* is for a node already on its current path, findNonTouching goes through at most
\* (number of loops - 1) levels, and calculateNumerator returns an expression.
C18_SearchesBounded ==
  NoDanglingEdge =>
    /\ \A ev \in Events :
         (ev.kind = "enter" /\ ev.curr # ev.root) =>
           /\ ev.curr \notin LoopNodes(Pop(ev.stackIn))
           /\ Len(ev.stack) < Len(nodes)
    /\ (phase \in {"nontouching", "denom", "numer"}) => LevelsBounded(allLoops, levels)
    /\ (phase = "numer") =>
         /\ numer.status = "ok"
         /\ \A k \in 1..Len(numer.expanded) :
              \A i, j \in 1..Len(numer.expanded[k]) :
                i # j => numer.expanded[k][i] # numer.expanded[k][j]
         /\ \A k \in 1..Len(numer.residuals) :
              LevelsBounded(numer.residuals[k],
                            findNonTouchingRun(numer.residuals[k]).levels)

\* a graph with a cycle of two edges, a self-loop and a pair of parallel edges, all
\* three calls made
C18_Witness ==
  /\ phase = "numer"
  /\ NoDanglingEdge
  /\ numer.status = "ok"
  /\ \E c \in EdgeSet(allLoops) : Len(c) >= 2
  /\ \E c \in EdgeSet(allLoops) : Len(c) = 1
  /\ \E s, t \in Slots(heap, nodes) :
       /\ s # t
       /\ SlotEdge(heap, s).startNode = SlotEdge(heap, t).startNode
       /\ SlotEdge(heap, s).endNode = SlotEdge(heap, t).endNode
  /\ Len(levels) >= 1
  /\ Len(numer.expanded) >= 1

====
